---- MODULE Spec2Model ----
(***************************************************************************)
(* A model of husio/go-git: the repository layout (git.go), the zlib       *)
(* framed object store, the blob / tree / commit encodings, the recursive  *)
(* tree checkout (cmd.go) and ref resolution.                              *)
(*                                                                         *)
(* Text and binary data are sequences of byte values (0..255); a string    *)
(* literal of the source is written as the tuple of its bytes.             *)
(***************************************************************************)
EXTENDS Integers, Sequences, FiniteSets, TLC

VARIABLES
    objfiles,   \* .git/objects: <<2-hex dir, 38-hex file>> -> compressed bytes
    work,       \* checkout destination: relative path -> directory or file
    last,       \* outcome of the last store / checkout operation
    cin,        \* CommitObject.Deserialize: the input under test
    cout,       \* CommitObject.Deserialize: the decoded object
    tin,        \* TreeObject: the input under test
    tout,       \* TreeObject: the outcome of Serialize / Deserialize
    fs,         \* filesystem: absolute path -> directory or file
    find,       \* FindRepository: position of the upward walk
    rlast       \* outcome of the last repository-level operation

vars == <<objfiles, work, last, cin, cout, tin, tout, fs, find, rlast>>

storeVars == <<objfiles, work, last>>
commitVars == <<cin, cout>>
treeVars == <<tin, tout>>
repoVars == <<fs, find, rlast>>

\* the value of a part of the state that is not in use
None == [none |-> TRUE]

(***************************************************************************)
(* Bytes and strings.                                                      *)
(***************************************************************************)
NUL == 0
LF == 10
SP == 32

Min(a, b) == IF a < b THEN a ELSE b

\* s[from:], 0-based like a Go slice expression
SliceFrom(s, from) == SubSeq(s, from + 1, Len(s))

\* s[:to]
SliceTo(s, to) == SubSeq(s, 1, to)

\* strings.HasPrefix
HasPrefix(s, p) == Len(s) >= Len(p) /\ SubSeq(s, 1, Len(p)) = p

\* 1-based index of the first d in s at or after position from; 0 when absent
IndexFrom(s, d, from) ==
    IF \E i \in from..Len(s) : s[i] = d
    THEN CHOOSE i \in from..Len(s) : s[i] = d /\ \A j \in from..(i - 1) : s[j] # d
    ELSE 0


\* the sequences over S of length at most n
SeqsUpTo(S, n) == UNION {[1..k -> S] : k \in 0..n}

(***************************************************************************)
(* CommitObject (git.go 263-323).                                          *)
(***************************************************************************)
EmptyHeader == <<>>

\* header[key] = append(header[key], value), dropping earlier values
MapAppendOverwrite(header, key, value) ==
    IF key \in DOMAIN header
    THEN [header EXCEPT ![key] = <<value>>]
    ELSE header @@ (key :> <<value>>)

\* header[key] = append(header[key], value) on a map[string][]string
MapAppend(header, key, value) ==
    IF key \in DOMAIN header
    THEN [header EXCEPT ![key] = Append(@, value)]
    ELSE header @@ (key :> <<value>>)

\* one pass of the readHeader loop: i is the next byte to read; when the loop
\* is left (done), i is the position at which the comment starts
readHeaderStep(raw, st) ==
    IF st.i > Len(raw)
    THEN \* io.EOF
         [st EXCEPT !.header = IF Len(st.key) # 0 /\ Len(st.buf) # 0
                               THEN MapAppend(st.header, st.key, st.buf)
                               ELSE st.header,
                    !.done = TRUE]
    ELSE IF raw[st.i] = SP
    THEN IF Len(st.key) = 0
         THEN [st EXCEPT !.i = @ + 1, !.key = st.buf, !.buf = <<>>]
         ELSE [st EXCEPT !.i = @ + 1, !.buf = Append(@, SP)]
    ELSE IF raw[st.i] = LF
    THEN IF st.i + 1 <= Len(raw) /\ raw[st.i + 1] = LF
         THEN \* end of header: both newlines are consumed
              [st EXCEPT !.i = @ + 2, !.header = MapAppend(@, st.key, st.buf),
                         !.done = TRUE]
         ELSE [st EXCEPT !.i = @ + 1, !.key = <<>>, !.buf = <<>>,
                         !.header = MapAppend(@, st.key, st.buf)]
    ELSE [st EXCEPT !.i = @ + 1, !.buf = Append(@, raw[st.i])]

\* at most n passes
RECURSIVE readHeaderSteps(_, _, _)
readHeaderSteps(raw, st, n) ==
    IF n = 0 \/ st.done THEN st ELSE readHeaderSteps(raw, readHeaderStep(raw, st), n - 1)

\* the readHeader loop, run until it is left (in runs of 16 passes, which
\* keeps the evaluation shallow and changes nothing else)
RECURSIVE readHeader(_, _)
readHeader(raw, st) ==
    LET st1 == readHeaderSteps(raw, st, 16) IN
    IF st1.done THEN st1 ELSE readHeader(raw, st1)

CommitDeserialize(raw) ==
    LET h == readHeader(raw, [i |-> 1, key |-> <<>>, buf |-> <<>>,
                              header |-> EmptyHeader, done |-> FALSE])
    IN  [err |-> FALSE,
         obj |-> [type |-> "commit",
                  Header |-> h.header,
                  Comment |-> SubSeq(raw, h.i, Len(raw))]]

(***************************************************************************)
(* Inputs of CommitObject.Deserialize.                                     *)
(***************************************************************************)
MaxLines == 2
MaxFree == 4

CommitKeys == {<<97>>, <<98>>}                          \* "a", "b"
CommitValues == {<<>>, <<120>>, <<120, 32, 121>>, <<32>>} \* "", "x", "x y", " "
CommitBodies == {<<>>, <<109>>, <<10, 109>>, <<109, 32, 10, 10, 110>>}
CommitLines == [key : CommitKeys, value : CommitValues]
FreeBytes == {SP, LF, 97}

\* 'key SP value LF'
HeaderLine(l) == l.key \o <<SP>> \o l.value \o <<LF>>

RECURSIVE HeaderBlock(_)
HeaderBlock(lines) ==
    IF lines = <<>> THEN <<>> ELSE HeaderLine(Head(lines)) \o HeaderBlock(Tail(lines))

CommitInputs ==
    {[shape |-> "block", lines |-> ls, body |-> b,
      raw |-> HeaderBlock(ls) \o <<LF>> \o b] :
        ls \in SeqsUpTo(CommitLines, MaxLines) \ {<<>>}, b \in CommitBodies}
    \cup
    {[shape |-> "bare", lines |-> <<l>>, body |-> <<>>,
      raw |-> l.key \o <<SP>> \o l.value] : l \in CommitLines}
    \cup
    {[shape |-> "free", lines |-> <<>>, body |-> <<>>, raw |-> r] :
        r \in SeqsUpTo(FreeBytes, MaxFree)}

CommitInit == cin \in CommitInputs /\ cout = None
CommitIdle == cin = None /\ cout = None

CommitDeserializeAct ==
    /\ cin # None
    /\ cout = None
    /\ cout' = CommitDeserialize(cin.raw)
    /\ UNCHANGED <<cin>>

(***************************************************************************)
(* strconv.Atoi and the %d verb, as TreeObject uses them.                  *)
(***************************************************************************)
IsDigit(c) == c >= 48 /\ c <= 57

\* the decimal digits of n >= 0, as fmt's %d prints them
RECURSIVE Itoa(_)
Itoa(n) == IF n < 10 THEN <<48 + n>> ELSE Itoa(n \div 10) \o <<48 + (n % 10)>>

RECURSIVE DigitsValue(_)
DigitsValue(ds) ==
    IF ds = <<>> THEN 0
    ELSE 10 * DigitsValue(SubSeq(ds, 1, Len(ds) - 1)) + (ds[Len(ds)] - 48)

\* strconv.Atoi: an optional sign and at least one digit, nothing else
Atoi(s) ==
    LET signed == Len(s) > 0 /\ s[1] \in {43, 45}
        ds == IF signed THEN Tail(s) ELSE s
    IN  IF Len(ds) = 0 \/ \E i \in DOMAIN ds : ~IsDigit(ds[i])
        THEN [err |-> TRUE, n |-> 0]
        ELSE [err |-> FALSE,
              n |-> IF signed /\ s[1] = 45 THEN 0 - DigitsValue(ds) ELSE DigitsValue(ds)]

(***************************************************************************)
(* bufio.Reader over a bytes.Reader (git.go 336): the reader is the count  *)
(* r of bytes consumed and the count w of bytes of raw loaded into the     *)
(* buffer so far, w - r <= BufSize.                                        *)
(***************************************************************************)
\* bufio.NewReader's buffer size
BufSize == 4096

\* the identifier length
ShaLen == 20

NewReader == [r |-> 0, w |-> 0]

\* one read of the underlying reader into the free part of the buffer
Fill(raw, rd) == [rd EXCEPT !.w = Min(Len(raw), rd.r + BufSize)]

\* 1-based index of the first d among raw[from..to]; 0 when absent
IndexIn(raw, d, from, to) ==
    IF \E i \in from..to : raw[i] = d
    THEN CHOOSE i \in from..to : raw[i] = d /\ \A j \in from..(i - 1) : raw[j] # d
    ELSE 0

\* bufio.Reader.ReadString(delim): data up to and including delim, or the
\* rest of the input with io.EOF. start is r when the call began.
RECURSIVE ReadStringFrom(_, _, _, _)
ReadStringFrom(raw, rd, start, delim) ==
    LET i == IndexIn(raw, delim, rd.r + 1, rd.w) IN
    IF i # 0
    THEN [data |-> SubSeq(raw, start + 1, i), err |-> FALSE, rd |-> [rd EXCEPT !.r = i]]
    ELSE IF rd.w - rd.r >= BufSize
    THEN \* bufio.ErrBufferFull: the fragment is collected, the buffer emptied
         ReadStringFrom(raw, [rd EXCEPT !.r = rd.w], start, delim)
    ELSE IF rd.w = Len(raw)
    THEN \* the underlying read returns 0, io.EOF
         [data |-> SubSeq(raw, start + 1, rd.w), err |-> TRUE,
          rd |-> [rd EXCEPT !.r = rd.w]]
    ELSE ReadStringFrom(raw, Fill(raw, rd), start, delim)

ReadString(raw, rd, delim) == ReadStringFrom(raw, rd, rd.r, delim)

\* bufio.Reader.Read(p), len(p) = n < BufSize: an empty buffer is refilled by
\* one read; then as much as the buffer holds is copied, at most n bytes
Read(raw, rd, n) ==
    LET rd1 == IF rd.r = rd.w THEN Fill(raw, rd) ELSE rd
        k == Min(n, rd1.w - rd1.r)
    IN  IF rd1.r = rd1.w
        THEN [n |-> 0, err |-> TRUE, data |-> <<>>, rd |-> rd1]
        ELSE [n |-> k, err |-> FALSE,
              data |-> SubSeq(raw, rd1.r + 1, rd1.r + k),
              rd |-> [rd1 EXCEPT !.r = rd1.r + k]]

(***************************************************************************)
(* TreeObject (git.go 325-377).                                            *)
(***************************************************************************)
RECURSIVE Zeros(_)
Zeros(n) == IF n = 0 THEN <<>> ELSE Append(Zeros(n - 1), 0)

\* os.FileMode(n); the modes used here are within 0 .. 2^31 - 1, where the
\* conversion to uint32 changes nothing
FileMode(n) == n

\* one iteration of the loop of Deserialize: the next entry is read at st.rd
\* and appended, or the loop ends (done) with or without an error
TreeStep(raw, st) ==
    LET m == ReadString(raw, st.rd, SP) IN
    IF m.err
    THEN \* io.EOF while reading the mode: the end of the tree
         [st EXCEPT !.done = TRUE, !.err = FALSE]
    ELSE
    LET mode == Atoi(SliceTo(m.data, Len(m.data) - 1)) IN
    IF mode.err
    THEN [st EXCEPT !.done = TRUE, !.err = TRUE]
    ELSE
    LET p == ReadString(raw, m.rd, NUL) IN
    IF p.err
    THEN [st EXCEPT !.done = TRUE, !.err = TRUE]
    ELSE
    LET s == Read(raw, p.rd, ShaLen) IN
    IF s.err
    THEN [st EXCEPT !.done = TRUE, !.err = TRUE]
    ELSE [st EXCEPT !.rd = s.rd,
                    !.Leafs = Append(@, [Mode |-> FileMode(mode.n),
                                         Path |-> SliceTo(p.data, Len(p.data) - 1),
                                         Sha |-> s.data \o Zeros(ShaLen - s.n)])]

\* at most n iterations
RECURSIVE TreeSteps(_, _, _)
TreeSteps(raw, st, n) ==
    IF n = 0 \/ st.done THEN st ELSE TreeSteps(raw, TreeStep(raw, st), n - 1)

\* the for loop, run to its return (in runs of 16 iterations, which keeps the
\* evaluation shallow and changes nothing else)
RECURSIVE TreeLoop(_, _)
TreeLoop(raw, st) ==
    LET st1 == TreeSteps(raw, st, 16) IN
    IF st1.done THEN st1 ELSE TreeLoop(raw, st1)

TreeDeserialize(raw) ==
    LET t == TreeLoop(raw, [rd |-> NewReader, Leafs |-> <<>>, done |-> FALSE,
                            err |-> FALSE])
    IN  [err |-> t.err, obj |-> [type |-> "tree", Leafs |-> t.Leafs]]

\* "%d %s\x00%s" of leaf.Mode, leaf.Path, leaf.Sha
LeafBytes(leaf) == Itoa(leaf.Mode) \o <<SP>> \o leaf.Path \o <<NUL>> \o leaf.Sha

\* the bytes of leafs[lo..hi], in order
RECURSIVE SerializeRange(_, _, _)
SerializeRange(leafs, lo, hi) ==
    IF lo > hi THEN <<>>
    ELSE IF lo = hi THEN LeafBytes(leafs[lo])
    ELSE LET mid == (lo + hi) \div 2 IN
         SerializeRange(leafs, lo, mid) \o SerializeRange(leafs, mid + 1, hi)

TreeSerialize(leafs) == SerializeRange(leafs, 1, Len(leafs))

(***************************************************************************)
(* Inputs of TreeObject.Serialize and TreeObject.Deserialize.              *)
(***************************************************************************)
MaxLeafs == 171
MaxSmallLeafs == 2

\* 20-byte identifiers that do not come from the store
RECURSIVE Count(_, _)
Count(b, n) == IF n = 0 THEN <<>> ELSE Append(Count(b, n - 1), b + n)

ShaOf(b) == Count(b, ShaLen)

TreeLeafs ==
    {[Mode |-> 100644, Path |-> <<97>>, Sha |-> ShaOf(64)],           \* "a"
     [Mode |-> 40000, Path |-> <<115, 32, 98>>, Sha |-> ShaOf(96)],   \* "s b"
     [Mode |-> 0, Path |-> <<>>, Sha |-> ShaOf(128)]}

\* a directory of n entries like leaf
Repeat(leaf, n) == [i \in 1..n |-> leaf]

TreeModeTokens == {<<49>>, <<120>>, <<>>, <<49, 120>>}    \* "1", "x", "", "1x"
TreeNames == {<<97>>, <<>>}

TreeInputs ==
    {[kind |-> "tree", Leafs |-> t, raw |-> <<>>] :
        t \in SeqsUpTo(TreeLeafs, MaxSmallLeafs)}
    \cup
    {[kind |-> "tree", Leafs |-> Repeat(l, n), raw |-> <<>>] :
        l \in TreeLeafs, n \in 0..MaxLeafs}
    \cup
    \* complete entries, then an entry cut after k bytes of its identifier
    {[kind |-> "raw", Leafs |-> <<>>,
      raw |-> TreeSerialize(t) \o m \o <<SP>> \o p \o <<NUL>> \o SubSeq(ShaOf(64), 1, k)] :
        t \in SeqsUpTo(TreeLeafs, 1), m \in TreeModeTokens, p \in TreeNames,
        k \in 0..ShaLen}
    \cup
    \* ... cut inside the name
    {[kind |-> "raw", Leafs |-> <<>>, raw |-> TreeSerialize(t) \o m \o <<SP>> \o p] :
        t \in SeqsUpTo(TreeLeafs, 1), m \in TreeModeTokens, p \in TreeNames}
    \cup
    \* ... cut inside the mode token
    {[kind |-> "raw", Leafs |-> <<>>, raw |-> TreeSerialize(t) \o m] :
        t \in SeqsUpTo(TreeLeafs, 1), m \in TreeModeTokens}

TreeInit == tin \in TreeInputs /\ tout = None

\* Deserialize(Serialize(t)) into a fresh TreeObject
TreeRoundTripAct ==
    /\ tin.kind = "tree"
    /\ tout = None
    /\ tout' = TreeDeserialize(TreeSerialize(tin.Leafs))
    /\ UNCHANGED <<tin>>

TreeDeserializeAct ==
    /\ tin.kind = "raw"
    /\ tout = None
    /\ tout' = TreeDeserialize(tin.raw)
    /\ UNCHANGED <<tin>>

(***************************************************************************)
(* The object store (git.go 144-233, 251-256).                             *)
(***************************************************************************)
KindCommit == <<99, 111, 109, 109, 105, 116>>   \* "commit"
KindBlob == <<98, 108, 111, 98>>                \* "blob"
KindTree == <<116, 114, 101, 101>>              \* "tree"
KindTag == <<116, 97, 103>>                     \* "tag"

\* the keys of the objects registry
Kinds == {KindCommit, KindBlob, KindTree, KindTag}

HexDigit(d) == IF d < 10 THEN 48 + d ELSE 87 + d

\* hex.EncodeToString
RECURSIVE HexEncode(_)
HexEncode(bs) ==
    IF bs = <<>> THEN <<>>
    ELSE <<HexDigit(Head(bs) \div 16), HexDigit(Head(bs) % 16)>> \o HexEncode(Tail(bs))

IsHexChar(c) == IsDigit(c) \/ (c >= 97 /\ c <= 102) \/ (c >= 65 /\ c <= 70)

HexValue(c) == IF IsDigit(c) THEN c - 48 ELSE IF c >= 97 THEN c - 87 ELSE c - 55

\* hex.DecodeString: the bytes of the leading well-formed pairs, and an error
\* when a character is no hex digit or the length is odd
RECURSIVE HexPairs(_, _)
HexPairs(s, i) ==
    IF 2 * i > Len(s) \/ ~IsHexChar(s[2 * i - 1]) \/ ~IsHexChar(s[2 * i]) THEN <<>>
    ELSE <<16 * HexValue(s[2 * i - 1]) + HexValue(s[2 * i])>> \o HexPairs(s, i + 1)

HexDecode(s) ==
    LET data == HexPairs(s, 1) IN
    [err |-> 2 * Len(data) # Len(s), data |-> data]

\* "%s %d\x00" of kind and len(content), then content, with a wrong length
FrameOffByOne(kind, content) ==
    kind \o <<SP>> \o Itoa(Len(content) + 1) \o <<NUL>> \o content

\* "%s %d\x00" of kind and len(content), then content
Frame(kind, content) ==
    kind \o <<SP>> \o Itoa(Len(content)) \o <<NUL>> \o content

\* the sum over raw[lo..hi] of (raw[i] + add) * Weight(k, n, i), modulo the
\* largest prime below 2^16, by halving the range
Weight(k, n, i) ==
    IF k = 0 THEN 1
    ELSE IF k = 1 THEN n - i + 1
    ELSE ((k * i * i + 13 * i * k + 7) % 251) + 1

RECURSIVE WeightedSum(_, _, _, _, _)
WeightedSum(raw, k, add, lo, hi) ==
    IF lo > hi THEN 0
    ELSE IF lo = hi THEN ((raw[lo] + add) * Weight(k, Len(raw), lo)) % 65521
    ELSE LET mid == (lo + hi) \div 2 IN
         (WeightedSum(raw, k, add, lo, mid) + WeightedSum(raw, k, add, mid + 1, hi)) % 65521

RECURSIVE Digest(_, _)
Digest(m, j) ==
    IF j = 6
    THEN <<m[1] \div 256, m[1] % 256, m[2] \div 256, m[2] % 256,
           m[3] \div 256, m[3] % 256>>
    ELSE Append(Digest(m, j - 1), (m[1] + j * m[2] + j * j * m[3] + m[4]) % 256)

\* sha1.Sum: a 20-byte digest that depends on every byte of raw and on its
\* position (SHA-1 itself is not computed)
Sha1Sum(raw) ==
    Digest(<<WeightedSum(raw, 2, 1, 1, Len(raw)), WeightedSum(raw, 3, 1, 1, Len(raw)),
             WeightedSum(raw, 5, 1, 1, Len(raw)), Len(raw)>>, ShaLen)

\* the Adler-32 checksum that ends a zlib stream, big-endian: a is one plus
\* the sum of the bytes, b the sum of the values a takes
Adler32(raw) ==
    LET a == (1 + WeightedSum(raw, 0, 0, 1, Len(raw))) % 65521
        b == (Len(raw) + WeightedSum(raw, 1, 0, 1, Len(raw))) % 65521
    IN  <<b \div 256, b % 256, a \div 256, a % 256>>

\* zlib.NewWriter / Write / Close: the zlib header, the data as one stored
\* deflate block (final-block flag, length, complemented length) and the
\* checksum; the compression itself is not modelled
ZlibCompress(raw) ==
    <<120, 156, 1, Len(raw) % 256, Len(raw) \div 256,
      255 - (Len(raw) % 256), 255 - (Len(raw) \div 256)>>
    \o raw \o Adler32(raw)

\* zlib.NewReader and the reads through it
ZlibDecompress(z) ==
    LET n == Len(z) - 11
        data == SubSeq(z, 8, 7 + n)
    IN  IF /\ n >= 0
           /\ SubSeq(z, 1, 3) = <<120, 156, 1>>
           /\ z[4] + 256 * z[5] = n
           /\ z[6] = 255 - z[4] /\ z[7] = 255 - z[5]
           /\ SubSeq(z, 8 + n, Len(z)) = Adler32(data)
        THEN [err |-> FALSE, data |-> data]
        ELSE [err |-> TRUE, data |-> <<>>]

\* path.Join(r.gitdir, "objects", s[:2], s[2:]), below .git/objects
ObjectPath(sha) ==
    LET s == HexEncode(sha) IN <<SliceTo(s, 2), SliceFrom(s, 2)>>

EmptyDir == <<>>

\* the file system after a file is created or truncated and written
PutFile(files, path, content) ==
    IF path \in DOMAIN files
    THEN [files EXCEPT ![path] = content]
    ELSE files @@ (path :> content)

BlobDeserialize(data) == [err |-> FALSE, obj |-> [type |-> "blob", Data |-> data]]

Error(why) == [status |-> "error", why |-> why]

\* newObj() and obj.Deserialize(content) for a kind of the objects registry
NewObjDeserialize(kind, content) ==
    IF kind = KindTag
    THEN [status |-> "panic", why |-> "todo: tag"]
    ELSE LET d == IF kind = KindCommit THEN CommitDeserialize(content)
                  ELSE IF kind = KindBlob THEN BlobDeserialize(content)
                  ELSE TreeDeserialize(content)
         IN  IF d.err THEN Error("deserialize")
             ELSE [status |-> "ok", obj |-> d.obj]

\* Repository.ReadObject
ReadObject(files, sha) ==
    IF Len(sha) # ShaLen THEN Error("invalid hash length")
    ELSE IF ObjectPath(sha) \notin DOMAIN files THEN Error("read object")
    ELSE
    LET z == ZlibDecompress(files[ObjectPath(sha)]) IN
    IF z.err THEN Error("zlib object reader")
    ELSE
    LET raw == z.data
        sp == IndexFrom(raw, SP, 1)
    IN
    IF sp = 0 THEN Error("read object kind")
    ELSE IF SubSeq(raw, 1, sp - 1) \notin Kinds THEN Error("unknown object kind")
    ELSE
    LET nul == IndexFrom(raw, NUL, sp + 1) IN
    IF nul = 0 THEN Error("read object size")
    ELSE
    LET size == Atoi(SubSeq(raw, sp + 1, nul - 1))
        content == SubSeq(raw, nul + 1, Len(raw))
    IN
    IF size.err THEN Error("invalid object size")
    ELSE IF size.n # Len(content) THEN Error("bad object length")
    ELSE NewObjDeserialize(SubSeq(raw, 1, sp - 1), content)

\* Repository.WriteObject: the identifier and the objects directory after it
WriteObject(files, kind, content) ==
    LET raw == Frame(kind, content)
        sha == Sha1Sum(raw)
    IN  [sha |-> sha, err |-> FALSE,
         files |-> PutFile(files, ObjectPath(sha), ZlibCompress(raw))]

(***************************************************************************)
(* treeCheckout (cmd.go 200-222) into a destination directory; a path is   *)
(* the sequence of names below the destination.                            *)
(***************************************************************************)
DirEntry == [dir |-> TRUE, data |-> <<>>]
FileEntry(data) == [dir |-> FALSE, data |-> data]

\* the destination after cmdCheckout's os.MkdirAll(destDir)
EmptyWork == <<>> :> DirEntry

Parent(path) == SubSeq(path, 1, Len(path) - 1)

PutEntry(w, path, e) ==
    IF path \in DOMAIN w THEN [w EXCEPT ![path] = e] ELSE w @@ (path :> e)

\* filepath.Join(path, leaf.Path) that forgets the directory
JoinFlat(path, name) == IF name = <<>> THEN path ELSE <<name>>

\* filepath.Join(path, leaf.Path) for a leaf.Path without separator
Join(path, name) == IF name = <<>> THEN path ELSE Append(path, name)

\* os.MkdirAll: nothing to do for a directory that exists; ENOTDIR for a
\* path, or a parent of it, that is a file
RECURSIVE MkdirAll(_, _)
MkdirAll(w, path) ==
    IF path \in DOMAIN w
    THEN [err |-> ~w[path].dir, why |-> IF w[path].dir THEN "" ELSE "ENOTDIR", fs |-> w]
    ELSE LET up == MkdirAll(w, Parent(path)) IN
         IF up.err THEN up
         ELSE [err |-> FALSE, why |-> "", fs |-> PutEntry(up.fs, path, DirEntry)]

\* ioutil.WriteFile
IoutilWriteFile(w, path, data) ==
    IF \/ (path \in DOMAIN w /\ w[path].dir)
       \/ Parent(path) \notin DOMAIN w
       \/ ~w[Parent(path)].dir
    THEN [err |-> TRUE, fs |-> w]
    ELSE [err |-> FALSE, fs |-> PutEntry(w, path, FileEntry(data))]

\* Op of the value of x, computed once
With(x, Op(_)) == Op(x)

\* the loop of treeCheckout from leaf i on. The result is the returned error
\* (status), the destination, and failed: whether an error was met at any
\* depth, returned or not.
RECURSIVE treeCheckoutFrom(_, _, _, _, _, _)
treeCheckoutFrom(files, leafs, i, path, w, failed) ==
    IF i > Len(leafs)
    THEN [status |-> "ok", fs |-> w, failed |-> failed]
    ELSE
    With(ReadObject(files, leafs[i].Sha), LAMBDA r :
    With(Join(path, leafs[i].Path), LAMBDA dest :
    IF r.status = "panic"
    THEN [status |-> "panic", fs |-> w, failed |-> failed]
    ELSE IF r.status = "error"
    THEN [status |-> "error", fs |-> w, failed |-> TRUE]
    ELSE IF r.obj.type = "tree"
    THEN With(MkdirAll(w, dest), LAMBDA mk :
         IF mk.err
         THEN [status |-> "error", fs |-> w, failed |-> TRUE]
         ELSE \* the error of the nested call is dropped
              With(treeCheckoutFrom(files, r.obj.Leafs, 1, dest, mk.fs, failed),
                   LAMBDA sub :
              IF sub.status = "panic" THEN sub
              ELSE treeCheckoutFrom(files, leafs, i + 1, path, sub.fs, sub.failed)))
    ELSE IF r.obj.type = "blob"
    THEN With(IoutilWriteFile(w, dest, r.obj.Data), LAMBDA wf :
         IF wf.err
         THEN [status |-> "error", fs |-> w, failed |-> TRUE]
         ELSE treeCheckoutFrom(files, leafs, i + 1, path, wf.fs, failed))
    ELSE [status |-> "error", fs |-> w, failed |-> TRUE]))

treeCheckout(files, leafs, path, w) == treeCheckoutFrom(files, leafs, 1, path, w, FALSE)

(***************************************************************************)
(* The store as a state machine.                                           *)
(***************************************************************************)
MaxObjects == 3

\* an identifier no object has, and one of the wrong length
MissingSha == ShaOf(0)
ShortSha == SubSeq(ShaOf(0), 1, ShaLen - 1)

\* the identifier WriteObject gives to content of a kind
IdOf(kind, content) == WriteObject(EmptyDir, kind, content).sha

Leaf(name, sha) == [Mode |-> 100644, Path |-> name, Sha |-> sha]

BlobPayloads == {<<>>, <<104, 105>>}                   \* "", "hi"
CommitPayloads == {<<97, 32, 120, 10, 10, 109>>}       \* "a x\n\nm"
TagPayloads == {<<116>>}                               \* "t"

NameA == <<97>>                                        \* "a"
NameS == <<115>>                                       \* "s"
BlobHi == IdOf(KindBlob, <<104, 105>>)

\* the trees written to the store: one blob; a blob beside a subtree, which
\* is named as the blob of the first tree is; a leaf that is in no store, and
\* a tree above it; two leaves of one name
TreeFile == <<Leaf(NameS, BlobHi)>>
TreeNested == <<Leaf(NameA, BlobHi), Leaf(NameS, IdOf(KindTree, TreeSerialize(TreeFile)))>>
TreeDangling == <<Leaf(NameA, MissingSha)>>
TreeAboveDangling == <<Leaf(NameS, IdOf(KindTree, TreeSerialize(TreeDangling)))>>
TreeTwice == <<Leaf(NameA, BlobHi), Leaf(NameA, IdOf(KindTree, TreeSerialize(TreeFile)))>>

TreePayloads ==
    {TreeSerialize(t) : t \in {TreeFile, TreeNested, TreeDangling,
                               TreeAboveDangling, TreeTwice}}

Payloads(kind) ==
    IF kind = KindBlob THEN BlobPayloads
    ELSE IF kind = KindCommit THEN CommitPayloads
    ELSE IF kind = KindTag THEN TagPayloads
    ELSE TreePayloads

\* the identifiers of the objects in the store
StoredShas(files) == {HexDecode(k[1] \o k[2]).data : k \in DOMAIN files}

StoreInit ==
    /\ objfiles = EmptyDir
    /\ work = EmptyWork
    /\ last = [op |-> "init"]

WriteObjectAct(kind, content) ==
    LET wr == WriteObject(objfiles, kind, content) IN
    /\ Cardinality(DOMAIN wr.files) <= MaxObjects
    /\ objfiles' = wr.files
    /\ last' = [op |-> "write", kind |-> kind, content |-> content,
                sha |-> wr.sha, err |-> wr.err]
    /\ UNCHANGED work

ReadObjectAct(sha) ==
    /\ last' = [op |-> "read", sha |-> sha, res |-> ReadObject(objfiles, sha)]
    /\ UNCHANGED <<objfiles, work>>

\* treeCheckout(repo, tr, destDir) of a tree read from the store
CheckoutAct(sha) ==
    \E r \in {ReadObject(objfiles, sha)} :
        /\ r.status = "ok"
        /\ r.obj.type = "tree"
        /\ \E co \in {treeCheckout(objfiles, r.obj.Leafs, <<>>, work)} :
              /\ work' = co.fs
              /\ last' = [op |-> "checkout", Leafs |-> r.obj.Leafs, before |-> work,
                          status |-> co.status, failed |-> co.failed]
        /\ UNCHANGED objfiles

(***************************************************************************)
(* Repositories on a file system (git.go 26-142, 235-247): a path is the   *)
(* sequence of its names below the root, a name a byte string.             *)
(***************************************************************************)
GitName == <<46, 103, 105, 116>>                     \* ".git"
Branches == <<98, 114, 97, 110, 99, 104, 101, 115>>   \* "branches"
Objects == <<111, 98, 106, 101, 99, 116, 115>>          \* "objects"
Refs == <<114, 101, 102, 115>>                       \* "refs"
Tags == <<116, 97, 103, 115>>                      \* "tags"
Heads == <<104, 101, 97, 100, 115>>                 \* "heads"
Description == <<100, 101, 115, 99, 114, 105, 112, 116, 105, 111, 110>>   \* "description"
HEAD == <<72, 69, 65, 68>>                           \* "HEAD"
Config == <<99, 111, 110, 102, 105, 103>>              \* "config"
TagName == <<118>>                                     \* "v"
DirW == <<119>>                                        \* "w"
DirP == <<112>>                                        \* "p"

\* "Unnamed repository.\n"
defaultDescription ==
    <<85, 110, 110, 97, 109, 101, 100, 32, 114, 101, 112, 111, 115, 105,
      116, 111, 114, 121, 46, 10>>

\* "ref: refs/heads/master\n"
defaultHEAD ==
    <<114, 101, 102, 58, 32, 114, 101, 102, 115, 47, 104, 101, 97, 100, 115,
      47, 109, 97, 115, 116, 101, 114, 10>>

\* "[core]\nrepositoryformatversion = 0\nfilemode = false\nbare = false\n"
defaultConfig ==
    <<91, 99, 111, 114, 101, 93, 10, 114, 101, 112, 111, 115, 105, 116, 111,
      114, 121, 102, 111, 114, 109, 97, 116, 118, 101, 114, 115, 105, 111,
      110, 32, 61, 32, 48, 10, 102, 105, 108, 101, 109, 111, 100, 101, 32,
      61, 32, 102, 97, 108, 115, 101, 10, 98, 97, 114, 101, 32, 61, 32, 102,
      97, 108, 115, 101, 10>>

\* the directory the process runs in
Cwd == <<DirW>>

\* a path string: absolute or not, and its names
Dot == [abs |-> FALSE, comps |-> <<>>]
Root == [abs |-> TRUE, comps |-> <<>>]
Rel(comps) == [abs |-> FALSE, comps |-> comps]

\* the file-system key of a path string
Resolve(p) == IF p.abs THEN p.comps ELSE Cwd \o p.comps

\* path.Join(p, name)
PathJoin(p, names) == [p EXCEPT !.comps = @ \o names]

\* filepath.Abs
Abs(p) == [abs |-> TRUE, comps |-> Resolve(p)]

\* filepath.Dir: the root is its own directory, a relative name has "."
Dir(p) == IF p.comps = <<>> THEN p ELSE [p EXCEPT !.comps = Parent(@)]

isDir(files, p) == Resolve(p) \in DOMAIN files /\ files[Resolve(p)].dir

\* OpenRepository
OpenRepository(files, dir) ==
    IF ~isDir(files, dir) THEN [err |-> TRUE]
    ELSE [err |-> FALSE, workdir |-> dir, gitdir |-> PathJoin(dir, <<GitName>>)]

\* Repository.DirPath
DirPath(files, r, mkdir, pathChunks) ==
    LET full == PathJoin(r.gitdir, pathChunks) IN
    IF isDir(files, full) THEN [err |-> FALSE, fs |-> files]
    ELSE IF ~mkdir THEN [err |-> TRUE, fs |-> files]
    ELSE LET mk == MkdirAll(files, Resolve(full)) IN [err |-> mk.err, fs |-> mk.fs]

\* Repository.WriteFile: the directory it ensures lacks the last two chunks
WriteFile(files, r, mkdir, content, pathChunks) ==
    LET d == IF Len(pathChunks) > 1
             THEN DirPath(files, r, mkdir, SubSeq(pathChunks, 1, Len(pathChunks) - 2))
             ELSE [err |-> FALSE, fs |-> files]
    IN  IF d.err THEN d
        ELSE IoutilWriteFile(d.fs, Resolve(PathJoin(r.gitdir, pathChunks)), content)

\* the DirPath(true, ...) calls of CreateRepository, in order, up to the
\* first that fails
RECURSIVE DirPaths(_, _, _)
DirPaths(files, r, dirs) ==
    IF dirs = <<>> THEN [err |-> FALSE, fs |-> files]
    ELSE LET d == DirPath(files, r, TRUE, Head(dirs)) IN
         IF d.err THEN d ELSE DirPaths(d.fs, r, Tail(dirs))

\* the WriteFile(true, ...) calls of CreateRepository, likewise
RECURSIVE WriteFiles(_, _, _)
WriteFiles(files, r, ws) ==
    IF ws = <<>> THEN [err |-> FALSE, fs |-> files]
    ELSE LET d == WriteFile(files, r, TRUE, Head(ws).content, <<Head(ws).name>>) IN
         IF d.err THEN d ELSE WriteFiles(d.fs, r, Tail(ws))

\* CreateRepository: the error it returns ("" for none) and the file system
\* it leaves
CreateRepository(files, dir) ==
    LET mk == MkdirAll(files, Resolve(PathJoin(dir, <<GitName>>))) IN
    IF mk.why = "EEXIST" THEN [err |-> "already a git repository", fs |-> mk.fs]
    ELSE IF mk.err THEN [err |-> "mkdir .git", fs |-> mk.fs]
    ELSE
    LET repo == OpenRepository(mk.fs, dir) IN
    IF repo.err THEN [err |-> "new repository", fs |-> mk.fs]
    ELSE
    LET wd == IF isDir(mk.fs, repo.workdir) THEN mk
              ELSE MkdirAll(mk.fs, Resolve(repo.workdir))
    IN
    IF wd.err THEN [err |-> "mkdir workdir", fs |-> wd.fs]
    ELSE
    LET ds == DirPaths(wd.fs, repo, <<<<Branches>>, <<Objects>>, <<Refs, Tags>>, <<Refs, Heads>>>>) IN
    IF ds.err THEN [err |-> "mkdir", fs |-> ds.fs]
    ELSE
    LET ws == WriteFiles(ds.fs, repo,
                  <<[name |-> Description, content |-> defaultDescription],
                    [name |-> HEAD, content |-> defaultHEAD],
                    [name |-> Config, content |-> defaultConfig]>>)
    IN  [err |-> IF ws.err THEN "write file" ELSE "", fs |-> ws.fs]

\* the names of a slash-separated path string
RECURSIVE SplitPath(_)
SplitPath(str) ==
    LET slash == IndexFrom(str, 47, 1) IN
    IF str = <<>> THEN <<>>
    ELSE IF slash = 0 THEN <<str>>
    ELSE (IF slash = 1 THEN <<>> ELSE <<SubSeq(str, 1, slash - 1)>>)
         \o SplitPath(SliceFrom(str, slash))

\* ioutil.ReadFile of a path string
ReadFile(files, name) ==
    LET p == IF name # <<>> /\ name[1] = 47
             THEN SplitPath(name) ELSE Cwd \o SplitPath(name)
    IN  IF name # <<>> /\ p \in DOMAIN files /\ ~files[p].dir
        THEN [err |-> FALSE, data |-> files[p].data]
        ELSE [err |-> TRUE, data |-> <<>>]

RefPrefix == <<114, 101, 102, 58>>                     \* "ref:"

\* Repository.ResolveRef: ref[5:] of a string of four bytes panics; data is
\* what hex.DecodeString returns beside its error
RECURSIVE ResolveRef(_, _)
ResolveRef(files, ref) ==
    IF HasPrefix(ref, RefPrefix)
    THEN IF Len(ref) < 5 THEN [status |-> "panic", data |-> <<>>]
         ELSE LET raw == ReadFile(files, SliceFrom(ref, 5)) IN
              IF raw.err THEN [status |-> "error", data |-> <<>>]
              ELSE ResolveRef(files, raw.data)
    ELSE LET d == HexDecode(ref) IN
         [status |-> IF d.err THEN "error" ELSE "ok", data |-> d.data]

(***************************************************************************)
(* The repository commands as a state machine.                             *)
(***************************************************************************)
MaxFindSteps == 4

\* the identifier the refs name
RefSha == ShaOf(16)

\* "ref: .git/refs/tags/v", "ref: .git/HEAD" and "ref: "
RefToTag == <<114, 101, 102, 58, 32, 46, 103, 105, 116, 47, 114, 101, 102, 115, 47, 116, 97, 103, 115, 47, 118>>
RefToHead == <<114, 101, 102, 58, 32, 46, 103, 105, 116, 47, 72, 69, 65, 68>>
RefToNothing == RefPrefix \o <<SP>>

\* where CreateRepository is called, and where FindRepository starts
RepoDirs == {Dot, Rel(<<DirP>>)}
FindStarts == {Dot, Rel(<<DirP>>), Rel(<<DirP, DirP>>), Root}

\* the files written below .git: a tag as cmdTag writes it, a tag without the
\* newline, and a HEAD that names the tag
RefWrites ==
    {[chunks |-> <<Refs, Tags, TagName>>, content |-> HexEncode(RefSha) \o <<LF>>],
     [chunks |-> <<Refs, Tags, TagName>>, content |-> HexEncode(RefSha)],
     [chunks |-> <<HEAD>>, content |-> RefToTag \o <<LF>>]}

RefInputs ==
    {RefToTag, RefToHead, RefToNothing, RefPrefix, HexEncode(RefSha),
     SliceTo(HexEncode(RefSha), 39), <<>>}

RepoInit ==
    /\ fs = (<<>> :> DirEntry) @@ (Cwd :> DirEntry)
    /\ find = [state |-> "idle"]
    /\ rlast = [op |-> "init"]

CreateRepositoryAct(dir) ==
    LET c == CreateRepository(fs, dir) IN
    /\ find.state # "running"
    /\ fs' = c.fs
    /\ rlast' = [op |-> "create", dir |-> dir, err |-> c.err, before |-> fs]
    /\ UNCHANGED find

\* repo.WriteFile(true, content, chunks...) on the repository of the current
\* directory, as cmdTag calls it
WriteFileAct(w) ==
    LET repo == OpenRepository(fs, Dot) IN
    /\ find.state # "running"
    /\ isDir(fs, PathJoin(Dot, <<GitName>>))
    /\ LET wf == WriteFile(fs, repo, TRUE, w.content, w.chunks) IN
       /\ fs' = wf.fs
       /\ rlast' = [op |-> "write", err |-> wf.err]
    /\ UNCHANGED find

ResolveRefAct(ref) ==
    /\ find.state # "running"
    /\ rlast' = [op |-> "resolve", ref |-> ref, res |-> ResolveRef(fs, ref)]
    /\ UNCHANGED <<fs, find>>

\* FindRepository up to its loop
FindStartAct(start) ==
    /\ find.state # "running"
    /\ find' = [state |-> "running", start |-> start, repo |-> Abs(start), steps |-> 0]
    /\ rlast' = [op |-> "find"]
    /\ UNCHANGED fs

\* one iteration of the loop of FindRepository
FindStepAct ==
    /\ find.state = "running"
    /\ find.steps < MaxFindSteps
    /\ IF isDir(fs, PathJoin(find.repo, <<GitName>>))
       THEN find' = [state |-> "done", start |-> find.start,
                     res |-> OpenRepository(fs, find.repo), steps |-> find.steps + 1]
       ELSE IF find.repo = Dot
       THEN find' = [state |-> "done", start |-> find.start,
                     res |-> [err |-> TRUE, notFound |-> TRUE], steps |-> find.steps + 1]
       ELSE find' = [find EXCEPT !.repo = Dir(find.repo), !.steps = @ + 1]
    /\ UNCHANGED <<fs, rlast>>

(***************************************************************************)
(* cmdLog and writeGraphviz (cmd.go 74-120) over the object store. The     *)
(* buffer w is the text written so far; calls is the history of the        *)
(* identifiers writeGraphviz was entered with.                             *)
(***************************************************************************)
MaxLogObjects == 5

\* "digraph gogitlog{\n" and "}\n"
Prologue == <<100, 105, 103, 114, 97, 112, 104, 32,
              103, 111, 103, 105, 116, 108, 111, 103, 123, 10>>
Epilogue == <<125, 10>>

ParentKey == <<112, 97, 114, 101, 110, 116>>          \* "parent"

\* c.Header["parent"]: the values of a key, none for a key the map lacks
HeaderValues(header, key) == IF key \in DOMAIN header THEN header[key] ELSE <<>>

\* fmt.Fprintf(w, "\"%x\" -> \"%s\";\n", sha, parent)
EdgeLine(sha, parent) ==
    <<34>> \o HexEncode(sha) \o <<34, 32, 45, 62, 32, 34>> \o parent \o <<34, 59, 10>>

RECURSIVE writeGraphviz(_, _, _, _, _), writeGraphvizFrom(_, _, _, _, _, _, _)

\* writeGraphviz were it to skip an identifier of the seen set and record
\* the ones it walks
writeGraphvizOnce(w, files, seen, calls, sha) ==
    IF HexEncode(sha) \in seen
    THEN [status |-> "ok", w |-> w, seen |-> seen, calls |-> calls]
    ELSE
    With(ReadObject(files, sha), LAMBDA r :
    IF r.status # "ok"
    THEN [status |-> r.status, w |-> w, seen |-> seen, calls |-> Append(calls, sha)]
    ELSE IF r.obj.type # "commit"
    THEN [status |-> "error", w |-> w, seen |-> seen, calls |-> Append(calls, sha)]
    ELSE writeGraphvizFrom(w, files, seen \cup {HexEncode(sha)}, Append(calls, sha), sha,
                           HeaderValues(r.obj.Header, ParentKey), 1))

\* the loop of writeGraphviz from parent i on
writeGraphvizFrom(w, files, seen, calls, sha, parents, i) ==
    IF i > Len(parents)
    THEN [status |-> "ok", w |-> w, seen |-> seen, calls |-> calls]
    ELSE
    With(HexDecode(parents[i]), LAMBDA d :
    With(w \o EdgeLine(sha, parents[i]), LAMBDA w1 :
    IF d.err
    THEN [status |-> "error", w |-> w1, seen |-> seen, calls |-> calls]
    ELSE With(writeGraphviz(w1, files, seen, calls, d.data), LAMBDA sub :
         IF sub.status # "ok" THEN sub
         ELSE writeGraphvizFrom(sub.w, files, sub.seen, sub.calls, sha, parents, i + 1))))

\* writeGraphviz(w, repo, seen, sha): the returned error (status), the buffer
\* and the seen set after it
writeGraphviz(w, files, seen, calls, sha) ==
    With(ReadObject(files, sha), LAMBDA r :
    IF r.status # "ok"
    THEN [status |-> r.status, w |-> w, seen |-> seen, calls |-> Append(calls, sha)]
    ELSE IF r.obj.type # "commit"
    THEN [status |-> "error", w |-> w, seen |-> seen, calls |-> Append(calls, sha)]
    ELSE writeGraphvizFrom(w, files, seen, Append(calls, sha), sha,
                           HeaderValues(r.obj.Header, ParentKey), 1))

\* cmdLog(input, output, args) in a directory of the repository of the
\* store: the returned error, what output received, and the walk
cmdLog(files, args) ==
    IF Len(args) # 1
    THEN [status |-> "error", why |-> "usage", output |-> <<>>, walked |-> FALSE]
    ELSE
    With(HexDecode(args[1]), LAMBDA d :
    IF d.err
    THEN [status |-> "error", why |-> "invalid hash value", output |-> <<>>,
          walked |-> FALSE]
    ELSE With(writeGraphviz(Prologue, files, {}, <<>>, d.data), LAMBDA res :
         IF res.status # "ok"
         THEN [status |-> res.status, why |-> "writeGraphviz", output |-> <<>>,
               walked |-> TRUE, res |-> res]
         ELSE [status |-> "ok", why |-> "", output |-> res.w \o Epilogue,
               walked |-> TRUE, res |-> res]))

\* a commit with the parents given, as git writes it: a first header line,
\* one parent line for each parent, an empty line, a one-byte message
RECURSIVE ParentLines(_)
ParentLines(parents) ==
    IF parents = <<>> THEN <<>>
    ELSE ParentKey \o <<SP>> \o Head(parents) \o <<LF>> \o ParentLines(Tail(parents))

CommitText(parents, msg) == <<97, 32, 120, 10>> \o ParentLines(parents) \o <<LF, msg>>

\* the commits written to the store: a root R, S above R, A and B above S,
\* the merge M of A and B, and E that names S twice
CommitR == CommitText(<<>>, 82)
IdR == IdOf(KindCommit, CommitR)
CommitS == CommitText(<<HexEncode(IdR)>>, 83)
IdS == IdOf(KindCommit, CommitS)
CommitA == CommitText(<<HexEncode(IdS)>>, 65)
IdA == IdOf(KindCommit, CommitA)
CommitB == CommitText(<<HexEncode(IdS)>>, 66)
IdB == IdOf(KindCommit, CommitB)
CommitM == CommitText(<<HexEncode(IdA), HexEncode(IdB)>>, 77)
IdM == IdOf(KindCommit, CommitM)
CommitE == CommitText(<<HexEncode(IdS), HexEncode(IdS)>>, 69)
IdE == IdOf(KindCommit, CommitE)
\* a commit whose parent is no hex string
CommitBadParent == CommitText(<<<<122, 122>>>>, 88)

LogPayloads(kind) ==
    IF kind = KindCommit
    THEN {CommitR, CommitS, CommitA, CommitB, CommitM, CommitE, CommitBadParent}
    ELSE IF kind = KindBlob THEN {<<104, 105>>}
    ELSE {}

\* the arguments of log: none, the hex string of a stored or a missing
\* identifier, and a string that is no hex string
LogArgs(files) ==
    {<<>>, <<<<122, 122>>>>}
    \cup {<<HexEncode(sha)>> : sha \in StoredShas(files) \cup {MissingSha}}

\* hash-object -w of a commit or a blob
HashObjectAct(kind, content) ==
    \E wr \in {WriteObject(objfiles, kind, content)} :
        /\ Cardinality(DOMAIN wr.files) <= MaxLogObjects
        /\ objfiles' = wr.files
        /\ last' = [op |-> "write", kind |-> kind, content |-> content,
                    sha |-> wr.sha, err |-> wr.err]
        /\ UNCHANGED work

CmdLogAct(args) ==
    /\ last' = [op |-> "log", args |-> args, ret |-> cmdLog(objfiles, args)]
    /\ UNCHANGED <<objfiles, work>>

(***************************************************************************)
(* Placeholders for the parts of the state the other specifications use.   *)
(***************************************************************************)
StoreIdle == objfiles = None /\ work = None /\ last = None
TreeIdle == tin = None /\ tout = None
RepoIdle == fs = None /\ find = None /\ rlast = None

SpecCommitInit == CommitInit /\ StoreIdle /\ TreeIdle /\ RepoIdle
SpecCommitNext == CommitDeserializeAct /\ UNCHANGED <<storeVars, treeVars, repoVars>>
SpecCommit == SpecCommitInit /\ [][SpecCommitNext]_vars

Init == StoreInit /\ CommitIdle /\ TreeIdle /\ RepoIdle
Next ==
    \/ /\ \E kind \in Kinds : \E content \in Payloads(kind) :
             WriteObjectAct(kind, content)
       /\ UNCHANGED <<commitVars, treeVars, repoVars>>
    \/ /\ \E sha \in StoredShas(objfiles) \cup {MissingSha, ShortSha} :
             ReadObjectAct(sha)
       /\ UNCHANGED <<commitVars, treeVars, repoVars>>
    \/ /\ \E sha \in StoredShas(objfiles) : CheckoutAct(sha)
       /\ UNCHANGED <<commitVars, treeVars, repoVars>>
Spec == Init /\ [][Next]_vars

SpecTreeInit == TreeInit /\ StoreIdle /\ CommitIdle /\ RepoIdle
SpecTreeNext ==
    \/ TreeRoundTripAct /\ UNCHANGED <<storeVars, commitVars, repoVars>>
    \/ TreeDeserializeAct /\ UNCHANGED <<storeVars, commitVars, repoVars>>
SpecTree == SpecTreeInit /\ [][SpecTreeNext]_vars

SpecRepoInit == RepoInit /\ StoreIdle /\ CommitIdle /\ TreeIdle
SpecRepoNext ==
    \/ /\ \E dir \in RepoDirs : CreateRepositoryAct(dir)
       /\ UNCHANGED <<storeVars, commitVars, treeVars>>
    \/ /\ \E w \in RefWrites : WriteFileAct(w)
       /\ UNCHANGED <<storeVars, commitVars, treeVars>>
    \/ /\ \E ref \in RefInputs : ResolveRefAct(ref)
       /\ UNCHANGED <<storeVars, commitVars, treeVars>>
    \/ /\ \E start \in FindStarts : FindStartAct(start)
       /\ UNCHANGED <<storeVars, commitVars, treeVars>>
    \/ /\ FindStepAct
       /\ UNCHANGED <<storeVars, commitVars, treeVars>>
SpecRepo == SpecRepoInit /\ [][SpecRepoNext]_vars

SpecLogInit == StoreInit /\ CommitIdle /\ TreeIdle /\ RepoIdle
SpecLogNext ==
    \/ /\ \E kind \in {KindCommit, KindBlob} : \E content \in LogPayloads(kind) :
             HashObjectAct(kind, content)
       /\ UNCHANGED <<commitVars, treeVars, repoVars>>
    \/ /\ \E args \in LogArgs(objfiles) : CmdLogAct(args)
       /\ UNCHANGED <<commitVars, treeVars, repoVars>>
SpecLog == SpecLogInit /\ [][SpecLogNext]_vars

(***************************************************************************)
(* C4.                                                                     *)
(***************************************************************************)
\* the values of key k among the header lines, in input order
RECURSIVE ValuesOf(_, _)
ValuesOf(lines, k) ==
    IF lines = <<>> THEN <<>>
    ELSE (IF Head(lines).key = k THEN <<Head(lines).value>> ELSE <<>>)
         \o ValuesOf(Tail(lines), k)

ExpectedHeader(lines) ==
    [k \in {lines[i].key : i \in DOMAIN lines} |-> ValuesOf(lines, k)]

C4_BlockCase ==
    (cin.shape = "block") =>
        /\ cout.obj.Header = ExpectedHeader(cin.lines)
        /\ cout.obj.Comment = cin.body

C4_EmptyCase ==
    (cin.raw = <<>>) =>
        /\ cout.obj.Header = EmptyHeader
        /\ cout.obj.Comment = <<>>

\* C4 (as stated): header lines 'key SP value LF', an empty line and a body
\* decode to the multimap of the values in input order and the body verbatim;
\* the empty input decodes to an empty Header and Comment; a single
\* 'key value' without a newline decodes to exactly that entry.
C4_Original ==
    (cout # None) =>
        /\ ~cout.err
        /\ C4_BlockCase
        /\ C4_EmptyCase
        /\ (cin.shape = "bare") =>
              /\ cout.obj.Header = ExpectedHeader(cin.lines)
              /\ cout.obj.Comment = <<>>

\* C4 (amended): as C4_Original, the single unterminated 'key value' having a
\* non-empty value (an empty pending value is not flushed at end of input).
C4_CommitDeserialize ==
    (cout # None) =>
        /\ ~cout.err
        /\ C4_BlockCase
        /\ C4_EmptyCase
        /\ (cin.shape = "bare" /\ cin.lines[1].value # <<>>) =>
              /\ cout.obj.Header = ExpectedHeader(cin.lines)
              /\ cout.obj.Comment = <<>>

\* a decoded block with a repeated key, a value holding a space and a body
C4_Witness ==
    /\ cout # None
    /\ cin.shape = "block"
    /\ Len(cin.lines) = 2
    /\ cin.lines[1].key = cin.lines[2].key
    /\ cin.lines[1].value = <<120, 32, 121>>
    /\ cin.body # <<>>
    /\ Len(cout.obj.Header[cin.lines[1].key]) = 2

(***************************************************************************)
(* C5, C10.                                                                *)
(***************************************************************************)
\* C5: deserializing Serialize(t) into a fresh TreeObject reproduces t's leaf
\* sequence exactly, for any number of leaves.
C5_TreeRoundTrip ==
    (tin.kind = "tree" /\ tout # None) =>
        /\ ~tout.err
        /\ tout.obj.Leafs = tin.Leafs

\* whether raw[i..] is a concatenation of complete entries
\* 'decimal-mode SP name NUL 20-identifier-bytes'
RECURSIVE IsEntries(_, _)
IsEntries(raw, i) ==
    IF i > Len(raw) THEN TRUE
    ELSE LET sp == IndexFrom(raw, SP, i) IN
         IF sp = 0 \/ Atoi(SubSeq(raw, i, sp - 1)).err THEN FALSE
         ELSE LET nul == IndexFrom(raw, NUL, sp + 1) IN
              IF nul = 0 \/ nul + ShaLen > Len(raw) THEN FALSE
              ELSE IsEntries(raw, nul + ShaLen + 1)

\* C10: TreeObject.Deserialize succeeds only on payloads that are a
\* concatenation of complete entries.
C10_TreeRejectsTruncated ==
    (tin.kind = "raw" /\ tout # None /\ ~tout.err) => IsEntries(tin.raw, 1)

(***************************************************************************)
(* C1, C8.                                                                 *)
(***************************************************************************)
\* C1: ReadObject applied to the identifier returned by a successful
\* WriteObject("blob", p) returns a BlobObject whose Data equals p, whatever
\* objects were written before.
C1_BlobRoundTrip ==
    (last.op = "write" /\ last.kind = KindBlob /\ ~last.err) =>
        ReadObject(objfiles, last.sha)
            = [status |-> "ok", obj |-> [type |-> "blob", Data |-> last.content]]

\* a non-empty blob written to a store that holds other objects, and read back
C1_Witness ==
    /\ last.op = "write"
    /\ last.kind = KindBlob
    /\ last.content # <<>>
    /\ Cardinality(DOMAIN objfiles) >= 3
    /\ ReadObject(objfiles, last.sha).status = "ok"

\* C8: ReadObject on any identifier, including one returned by WriteObject for
\* any of the kinds commit, tree, tag and blob, returns a decoded object or an
\* error value and never panics.
C8_ReadNeverPanics ==
    (last.op = "read") => last.res.status \in {"ok", "error"}

(***************************************************************************)
(* C6, C9.                                                                 *)
(***************************************************************************)
\* every object reachable from the leaves is in the store and decodes to a
\* Blob or a Tree
RECURSIVE AllReachable(_, _)
AllReachable(files, leafs) ==
    \A i \in DOMAIN leafs :
        LET r == ReadObject(files, leafs[i].Sha) IN
        /\ r.status = "ok"
        /\ r.obj.type \in {"blob", "tree"}
        /\ (r.obj.type = "tree") => AllReachable(files, r.obj.Leafs)

\* sibling leaf names are distinct, in the tree and in every tree below it
RECURSIVE DistinctNames(_, _)
DistinctNames(files, leafs) ==
    /\ \A i, j \in DOMAIN leafs : (leafs[i].Path = leafs[j].Path) => (i = j)
    /\ \A i \in DOMAIN leafs :
          LET r == ReadObject(files, leafs[i].Sha) IN
          (r.status = "ok" /\ r.obj.type = "tree") => DistinctNames(files, r.obj.Leafs)

\* what a checkout of the leaves below path is to leave: a file with the
\* blob's bytes for every Blob, a directory for every Tree
RECURSIVE Expected(_, _, _)
Expected(files, leafs, path) ==
    UNION {LET r == ReadObject(files, leafs[i].Sha)
               p == path \o <<leafs[i].Path>>
           IN  IF r.obj.type = "blob"
               THEN {[path |-> p, entry |-> FileEntry(r.obj.Data)]}
               ELSE {[path |-> p, entry |-> DirEntry]}
                    \cup Expected(files, r.obj.Leafs, p)
           : i \in DOMAIN leafs}

\* the destination holds no file where the checkout makes a directory and no
\* directory where it writes a file
NoConflict(w, expected) ==
    \A e \in expected : (e.path \in DOMAIN w) => (w[e.path].dir = e.entry.dir)

C6_Premise ==
    /\ last.op = "checkout"
    /\ AllReachable(objfiles, last.Leafs)
    /\ DistinctNames(objfiles, last.Leafs)

C6_Postcondition ==
    /\ last.status = "ok"
    /\ \A e \in Expected(objfiles, last.Leafs, <<>>) :
          e.path \in DOMAIN work /\ work[e.path] = e.entry

\* C6 (as stated): treeCheckout of a tree into a destination directory, when
\* every reachable object is in the store and decodes to a Blob or a Tree and
\* sibling names are distinct, returns no error and leaves a file with the
\* blob's bytes for every reachable Blob and a directory for every nested Tree.
C6_Original == C6_Premise => C6_Postcondition

\* C6 (amended): as C6_Original, for a destination that holds no file at a
\* path where the tree has a Tree leaf and no directory at a path where the
\* tree has a Blob leaf.
C6_TreeCheckout ==
    (C6_Premise /\ NoConflict(last.before, Expected(objfiles, last.Leafs, <<>>)))
        => C6_Postcondition

\* a checkout of a blob beside a subtree that holds a blob
C6_Witness ==
    /\ C6_Premise
    /\ NoConflict(last.before, Expected(objfiles, last.Leafs, <<>>))
    /\ Len(last.Leafs) = 2
    /\ \E e \in Expected(objfiles, last.Leafs, <<>>) :
          /\ Len(e.path) = 2
          /\ ~e.entry.dir
          /\ work[e.path].data = <<104, 105>>

\* C9: treeCheckout returns an error whenever a leaf at any nesting depth
\* cannot be read, decodes to another kind than Blob or Tree, or cannot be
\* written; it never returns success after a failure inside a subtree.
C9_ErrorsPropagate ==
    (last.op = "checkout" /\ last.failed /\ last.status # "panic")
        => last.status = "error"

(***************************************************************************)
(* C2, C3, C7.                                                             *)
(***************************************************************************)
\* C2: CreateRepository called on a path that already contains the .git
\* directory fails with an AlreadyExists error and leaves every file below
\* that directory unchanged.
C2_CreateOnExisting ==
    (rlast.op = "create" /\ isDir(rlast.before, PathJoin(rlast.dir, <<GitName>>))) =>
        /\ rlast.err = "already a git repository"
        /\ \A q \in DOMAIN rlast.before :
              HasPrefix(q, Resolve(PathJoin(rlast.dir, <<GitName>>)))
                  => (q \in DOMAIN fs /\ fs[q] = rlast.before[q])

StripLF(str) ==
    IF str # <<>> /\ str[Len(str)] = LF THEN SubSeq(str, 1, Len(str) - 1) ELSE str

IsId(str) == Len(str) = 2 * ShaLen /\ \A i \in DOMAIN str : IsHexChar(str[i])

\* the identifier a ref leads to through ref files in the on-disk format,
\* 'ref: <path>' or 40 hex characters, each ended by a newline
RECURSIVE RefTarget(_, _, _)
RefTarget(files, ref, onDisk) ==
    IF onDisk /\ (ref = <<>> \/ ref[Len(ref)] # LF) THEN [ok |-> FALSE, id |-> <<>>]
    ELSE
    LET r == IF onDisk THEN StripLF(ref) ELSE ref IN
    IF IsId(r) THEN [ok |-> TRUE, id |-> HexDecode(r).data]
    ELSE IF HasPrefix(r, RefPrefix \o <<SP>>)
    THEN LET f == ReadFile(files, SliceFrom(r, 5)) IN
         IF f.err THEN [ok |-> FALSE, id |-> <<>>]
         ELSE RefTarget(files, f.data, TRUE)
    ELSE [ok |-> FALSE, id |-> <<>>]

\* C3: a ref 'ref: <path>' whose chain of ref files in the on-disk format
\* ends in a file holding a 40-hex-char identifier resolves to that 20-byte
\* identifier, and a 40-hex-char ref resolves to its own 20 bytes.
C3_ResolveRef ==
    (rlast.op = "resolve" /\ RefTarget(fs, rlast.ref, FALSE).ok) =>
        rlast.res = [status |-> "ok", data |-> RefTarget(fs, rlast.ref, FALSE).id]

\* C7: FindRepository terminates: the upward walk looks at the start
\* directory and at each of its ancestors up to the root once, and then
\* returns (NotFound when none of them holds .git).
C7_FindTerminates ==
    (find.state = "running") => find.steps <= Len(Abs(find.start).comps) + 1

(***************************************************************************)
(* C11. The ancestry graph is stated apart from the store: a commit is a   *)
(* name, its parents the names its parent header lines give in order; a    *)
(* parent path is a sequence of parent header lines.                       *)
(***************************************************************************)
GraphNodes == {"R", "S", "A", "B", "M", "E"}

GraphParents(n) ==
    CASE n = "R" -> <<>>
      [] n = "S" -> <<"R">>
      [] n = "A" -> <<"S">>
      [] n = "B" -> <<"S">>
      [] n = "M" -> <<"A", "B">>
      [] n = "E" -> <<"S", "S">>

GraphId(n) ==
    CASE n = "R" -> IdR
      [] n = "S" -> IdS
      [] n = "A" -> IdA
      [] n = "B" -> IdB
      [] n = "M" -> IdM
      [] n = "E" -> IdE

\* the number of parent paths from a commit to another
RECURSIVE PathCount(_, _), PathCountVia(_, _, _)
PathCountVia(parents, i, to) ==
    IF i > Len(parents) THEN 0
    ELSE PathCount(parents[i], to) + PathCountVia(parents, i + 1, to)

PathCount(from, to) ==
    IF from = to THEN 1 ELSE PathCountVia(GraphParents(from), 1, to)

ReachableFrom(n) == {m \in GraphNodes : PathCount(n, m) > 0}

\* the line of the edge from a commit to a parent
EdgeText(c, p) ==
    <<34>> \o HexEncode(GraphId(c)) \o <<34, 32, 45, 62, 32, 34>>
    \o HexEncode(GraphId(p)) \o <<34, 59, 10>>

\* the depth-first walk in parent order: the commits visited and the lines
\* of the edges
RECURSIVE WalkFrom(_), WalkVia(_, _)
WalkVia(c, i) ==
    IF i > Len(GraphParents(c)) THEN [visits |-> <<>>, lines |-> <<>>]
    ELSE LET sub == WalkFrom(GraphParents(c)[i])
             rest == WalkVia(c, i + 1)
         IN  [visits |-> sub.visits \o rest.visits,
              lines |-> <<EdgeText(c, GraphParents(c)[i])>> \o sub.lines \o rest.lines]

WalkFrom(c) ==
    LET via == WalkVia(c, 1) IN
    [visits |-> <<GraphId(c)>> \o via.visits, lines |-> via.lines]

RECURSIVE Flatten(_)
Flatten(lines) == IF lines = <<>> THEN <<>> ELSE Head(lines) \o Flatten(Tail(lines))

\* the lines of a text, each with its newline
RECURSIVE LinesOf(_)
LinesOf(text) ==
    IF text = <<>> THEN <<>>
    ELSE LET nl == IndexFrom(text, LF, 1)
             end == IF nl = 0 THEN Len(text) ELSE nl
         IN  <<SubSeq(text, 1, end)>> \o LinesOf(SubSeq(text, end + 1, Len(text)))

Occurrences(s, x) == Cardinality({i \in 1..Len(s) : s[i] = x})

\* log was started at commit n and every commit n reaches is in the store
LogStartedAt(n) ==
    /\ last.op = "log"
    /\ last.args = <<HexEncode(GraphId(n))>>
    /\ \A m \in ReachableFrom(n) : GraphId(m) \in StoredShas(objfiles)

\* every identifier of the store, as the seen set holds them
SeenAll == {HexEncode(sha) : sha \in StoredShas(objfiles)}

\* C11: writeGraphviz started at a commit whose reachable commits are all in
\* the store returns without error, having entered the commits and written the
\* edge lines of the depth-first walk in parent order; the seen set is as it
\* was and a seen set that holds every identifier changes nothing; a commit
\* reached by k parent paths is entered k times and each of its parent lines
\* makes k edge lines.
C11_WriteGraphviz ==
    \A n \in GraphNodes :
        LogStartedAt(n) =>
            /\ last.ret.status = "ok"
            /\ last.ret.res.w = Prologue \o Flatten(WalkFrom(n).lines)
            /\ last.ret.res.calls = WalkFrom(n).visits
            /\ last.ret.res.seen = {}
            /\ last.ret.output = last.ret.res.w \o Epilogue
            /\ writeGraphviz(Prologue, objfiles, SeenAll, <<>>, GraphId(n))
                   = [last.ret.res EXCEPT !.seen = SeenAll]
            /\ \A c \in ReachableFrom(n) :
                  /\ Occurrences(last.ret.res.calls, GraphId(c)) = PathCount(n, c)
                  /\ \A p \in ReachableFrom(c) \ {c} :
                        Occurrences(LinesOf(last.ret.res.w), EdgeText(c, p))
                            = PathCount(n, c) * Occurrences(GraphParents(c), p)

\* C11 witness: log of the merge M of the diamond R, S, A, B, M has entered S
\* twice and written the edge from S to R twice
C11_Witness ==
    /\ LogStartedAt("M")
    /\ last.ret.status = "ok"
    /\ Occurrences(last.ret.res.calls, IdS) = 2
    /\ Occurrences(LinesOf(last.ret.res.w), EdgeText("S", "R")) = 2

====
